---- MODULE Spec2Model ----
(***************************************************************************)
(* Model of scripts/terminal_bench/piecode_tb_agent.py: the PieCode        *)
(* adapter for the terminal-bench harness (class PieCodeTBenchAgent).      *)
(*                                                                         *)
(* Strings are sequences.  A path string is a sequence of tokens, each     *)
(* either the separator "/" or one path segment ("root", ".piecode", ".").*)
(* A model name and a shell word are sequences of one-character strings.   *)
(* An instruction is a sequence of Unicode code points, a byte string a    *)
(* sequence of numbers 0..255.                                             *)
(***************************************************************************)
EXTENDS Integers, Sequences, FiniteSets, TLC

VARIABLES
    kwargs,         \* keyword arguments given to __init__ (partial map)
    environ,        \* os.environ of the host process (partial map)
    modelArg,       \* the model_name argument of __init__
    constructed,    \* __init__ has run
    self,           \* the instance attributes set by __init__
    hostFiles,      \* the host paths that exist (as strings)
    calls,          \* number of perform_task calls made so far
    copyLog,        \* copy_to_container calls issued to the session, in order
    runCopies,      \* the copy_to_container calls of the last perform_task call
    sessionRaised,  \* the error copy_to_container threw in the last call, and at
                    \* which of its copy calls (0: none)
    raised,         \* the error the last perform_task call ended with
    superCalled,    \* super().perform_task was reached
    staged,         \* history: some perform_task call finished all its copies
    instruction,    \* the task instruction the harness holds
    commands,       \* result of the last _run_agent_commands call
    invoked,        \* history: how _run_agent_commands was last entered
    proc            \* the launcher process running the command in the session

vars == <<kwargs, environ, modelArg, constructed, self, hostFiles, calls, copyLog,
          runCopies, sessionRaised, raised, superCalled, staged, instruction, commands,
          invoked, proc>>

-----------------------------------------------------------------------------
(* Sequence helpers *)

Front(s) == SubSeq(s, 1, Len(s) - 1)

Last(s) == s[Len(s)]

Range(s) == {s[i] : i \in 1..Len(s)}

\* all sequences over S of length at most n
SeqUpTo(S, n) == UNION {[1..k -> S] : k \in 0..n}

\* all maps from a subset of Keys to Vals (a dict whose keys are among Keys)
PartialMaps(Keys, Vals) == UNION {[D -> Vals] : D \in SUBSET Keys}

-----------------------------------------------------------------------------
(* pathlib.PurePosixPath, as the adapter uses it *)

SEP == "/"

\* number of leading separators of a path string
RECURSIVE LeadingSeps(_)
LeadingSeps(s) ==
    IF s # <<>> /\ s[1] = SEP THEN 1 + LeadingSeps(Tail(s)) ELSE 0

\* Path(s): the root ("", "/" or, for exactly two leading slashes, "//") and
\* the segments, empty and "." segments dropped
Path(s) ==
    [root  |-> CASE LeadingSeps(s) = 0 -> ""
                 [] LeadingSeps(s) = 2 -> "//"
                 [] OTHER -> "/",
     parts |-> SelectSeq(s, LAMBDA t : t # SEP /\ t # ".")]

RootStr(r) == CASE r = "" -> <<>> [] r = "/" -> <<SEP>> [] OTHER -> <<SEP, SEP>>

RECURSIVE JoinSegments(_)
JoinSegments(parts) ==
    IF Len(parts) <= 1 THEN parts
    ELSE <<parts[1], SEP>> \o JoinSegments(Tail(parts))

\* str(path)
PathStr(p) ==
    IF p.parts = <<>> /\ p.root = "" THEN <<".">>
    ELSE RootStr(p.root) \o JoinSegments(p.parts)

\* path.parent
PathParent(p) == IF p.parts = <<>> THEN p ELSE [p EXCEPT !.parts = Front(p.parts)]

\* path.name, a string
PathName(p) == IF p.parts = <<>> THEN <<>> ELSE <<Last(p.parts)>>

\* path / s
PathJoin(p, s) ==
    IF Path(s).root # "" THEN Path(s)
    ELSE [root |-> p.root, parts |-> p.parts \o Path(s).parts]

-----------------------------------------------------------------------------
(* __init__: configuration *)

DefaultHostRepo     == <<SEP, "Users", SEP, "reeze", SEP, "piecode">>
DefaultHostSettings == <<SEP, "Users", SEP, "reeze", SEP, ".piecode", SEP, "settings.json">>
DefaultHostAuth     == <<SEP, "Users", SEP, "reeze", SEP, ".codex", SEP, "auth.json">>
DefaultContainerHome == <<SEP, "root">>

HostKeys    == {"piecode_host_path", "piecode_settings_path", "codex_auth_path"}
SessionKeys == {"container_home", "codex_home", "container_settings_path"}

\* kwargs.get(k) or os.environ.get(e) or default
HostResolve_EnvFirst(k, e, default) ==
    IF e \in DOMAIN environ /\ environ[e] # <<>> THEN environ[e]
    ELSE IF k \in DOMAIN kwargs /\ kwargs[k] # <<>> THEN kwargs[k]
    ELSE default

HostResolve(k, e, default) ==
    IF k \in DOMAIN kwargs /\ kwargs[k] # <<>> THEN kwargs[k]
    ELSE IF e \in DOMAIN environ /\ environ[e] # <<>> THEN environ[e]
    ELSE default

\* kwargs.get(k, default)
KwGet(k, default) == IF k \in DOMAIN kwargs THEN kwargs[k] ELSE default

WS == " "

RECURSIVE LStrip(_)
LStrip(s) == IF s # <<>> /\ s[1] = WS THEN LStrip(Tail(s)) ELSE s

RECURSIVE RStrip(_)
RStrip(s) == IF s # <<>> /\ Last(s) = WS THEN RStrip(Front(s)) ELSE s

\* s.strip()
Strip(s) == LStrip(RStrip(s))

\* s.split("/")[-1]
RECURSIVE LastSegment(_)
LastSegment(s) ==
    IF SEP \in Range(s) THEN LastSegment(Tail(s)) ELSE s

\* (model_name or "").split("/")[-1].strip()
TrimModel(arg) == Strip(LastSegment(IF arg.isNone THEN <<>> ELSE arg.s))

NoSelf ==
    [model_name |-> <<>>, host_repo |-> Path(<<>>), host_settings |-> Path(<<>>),
     host_codex_auth |-> Path(<<>>), container_home |-> <<>>,
     container_codex_home |-> <<>>, container_settings_path |-> <<>>]

NewSelf ==
    LET home == KwGet("container_home", DefaultContainerHome) IN
    [model_name      |-> TrimModel(modelArg),
     host_repo       |-> Path(HostResolve("piecode_host_path", "PIECODE_HOST_PATH",
                                          DefaultHostRepo)),
     host_settings   |-> Path(HostResolve("piecode_settings_path", "PIECODE_SETTINGS_PATH",
                                          DefaultHostSettings)),
     host_codex_auth |-> Path(HostResolve("codex_auth_path", "CODEX_AUTH_PATH",
                                          DefaultHostAuth)),
     container_home  |-> home,
     container_codex_home    |-> KwGet("codex_home", home \o <<SEP, ".codex">>),
     container_settings_path |-> KwGet("container_settings_path",
                                       home \o <<SEP, ".piecode", SEP, "settings.json">>)]

Construct ==
    /\ ~constructed
    /\ constructed' = TRUE
    /\ self' = NewSelf
    /\ UNCHANGED <<kwargs, environ, modelArg, hostFiles, calls, copyLog, runCopies,
                   sessionRaised,
                   raised, superCalled, staged, instruction, commands, invoked, proc>>

-----------------------------------------------------------------------------
(* perform_task: validation of the host artifacts and staging *)

MaxCalls == 2

NoError == [type |-> "none", text |-> "", paths |-> <<>>]

None == [isNone |-> TRUE, s |-> <<>>]

Some(s) == [isNone |-> FALSE, s |-> s]

\* p.exists() on the host
Exists(p) == PathStr(p) \in hostFiles

\* required = [repo / "src", repo / "package.json", repo / "package-lock.json"]
Required ==
    <<PathJoin(self.host_repo, <<"src">>),
      PathJoin(self.host_repo, <<"package.json">>),
      PathJoin(self.host_repo, <<"package-lock.json">>)>>

\* missing = [str(p) for p in required if not p.exists()]
RECURSIVE StrAll(_)
StrAll(ps) == IF ps = <<>> THEN <<>> ELSE <<PathStr(ps[1])>> \o StrAll(Tail(ps))

Missing == StrAll(SelectSeq(Required, LAMBDA p : ~Exists(p)))

\* the two existence checks: the error they raise, NoError when both pass
ValidationError_SourcesOnly ==
    IF Missing # <<>>
    THEN [type |-> "FileNotFoundError",
          text |-> "PieCode source files not found for benchmark install: ",
          paths |-> Missing]
    ELSE NoError

ValidationError ==
    IF Missing # <<>>
    THEN [type |-> "FileNotFoundError",
          text |-> "PieCode source files not found for benchmark install: ",
          paths |-> Missing]
    ELSE IF ~Exists(self.host_settings)
    THEN [type |-> "FileNotFoundError",
          text |-> "PieCode settings file not found: ",
          paths |-> <<PathStr(self.host_settings)>>]
    ELSE NoError

AgentDir == <<SEP, "installed-agent", SEP, "piecode">>

AuthName == <<"auth.json">>

SourcesCopy ==
    [paths |-> StrAll(Required), container_dir |-> AgentDir, container_filename |-> None]

SettingsCopy ==
    [paths |-> <<PathStr(self.host_settings)>>,
     container_dir |-> PathStr(PathParent(Path(self.container_settings_path))),
     container_filename |-> Some(PathName(Path(self.container_settings_path)))]

AuthCopy ==
    [paths |-> <<PathStr(self.host_codex_auth)>>,
     container_dir |-> self.container_codex_home,
     container_filename |-> Some(AuthName)]

\* the copy_to_container calls of a run in which none of them raises
CopyPlan_AuthAlways == <<SourcesCopy, SettingsCopy, AuthCopy>>

CopyPlan ==
    <<SourcesCopy, SettingsCopy>>
    \o (IF Exists(self.host_codex_auth) THEN <<AuthCopy>> ELSE <<>>)

\* the environment handed to the session (property _env)
Env_Literal ==
    [HOME |-> self.container_home,
     CODEX_HOME |-> self.container_home \o <<SEP, ".codex">>,
     PIECODE_SETTINGS_FILE |-> self.container_home \o <<SEP, ".piecode", SEP, "settings.json">>,
     PIECODE_DISABLE_CODEX_CLI |-> <<"1">>]

Env ==
    [HOME |-> self.container_home,
     CODEX_HOME |-> self.container_codex_home,
     PIECODE_SETTINGS_FILE |-> self.container_settings_path,
     PIECODE_DISABLE_CODEX_CLI |-> <<"1">>]

-----------------------------------------------------------------------------
(* _run_agent_commands: the transport encoding of the instruction *)

\* str.encode("utf-8") of one code point (a Unicode scalar value)
Utf8Char_OneByte(cp) == <<cp % 256>>

Utf8Char(cp) ==
    IF cp < 128 THEN <<cp>>
    ELSE IF cp < 2048 THEN <<192 + (cp \div 64), 128 + (cp % 64)>>
    ELSE IF cp < 65536
    THEN <<224 + (cp \div 4096), 128 + ((cp \div 64) % 64), 128 + (cp % 64)>>
    ELSE <<240 + (cp \div 262144), 128 + ((cp \div 4096) % 64),
           128 + ((cp \div 64) % 64), 128 + (cp % 64)>>

RECURSIVE Utf8Encode(_)
Utf8Encode(cps) ==
    IF cps = <<>> THEN <<>> ELSE Utf8Char(cps[1]) \o Utf8Encode(Tail(cps))

B64Chars ==
    <<
      "A", "B", "C", "D", "E", "F", "G", "H", "I", "J", "K", "L", "M", "N", "O", "P",
      "Q", "R", "S", "T", "U", "V", "W", "X", "Y", "Z", "a", "b", "c", "d", "e", "f",
      "g", "h", "i", "j", "k", "l", "m", "n", "o", "p", "q", "r", "s", "t", "u", "v",
      "w", "x", "y", "z", "0", "1", "2", "3", "4", "5", "6", "7", "8", "9", "+", "/"
    >>

PAD == "="

B64Char(i) == B64Chars[i + 1]

B64Index(c) == CHOOSE i \in 0..63 : B64Chars[i + 1] = c

\* base64.b64encode(bytes).decode("ascii")
RECURSIVE B64Encode(_)
B64Encode(bs) ==
    IF bs = <<>> THEN <<>>
    ELSE IF Len(bs) = 1
    THEN <<B64Char(bs[1] \div 4), B64Char((bs[1] % 4) * 16), PAD, PAD>>
    ELSE IF Len(bs) = 2
    THEN <<B64Char(bs[1] \div 4), B64Char(((bs[1] % 4) * 16) + (bs[2] \div 16)),
           B64Char((bs[2] % 16) * 4), PAD>>
    ELSE <<B64Char(bs[1] \div 4), B64Char(((bs[1] % 4) * 16) + (bs[2] \div 16)),
           B64Char(((bs[2] % 16) * 4) + (bs[3] \div 64)), B64Char(bs[3] % 64)>>
         \o B64Encode(SubSeq(bs, 4, Len(bs)))

\* the sextets of a base64 text to bytes
RECURSIVE SextetsToBytes(_)
SextetsToBytes(x) ==
    IF Len(x) < 2 THEN <<>>
    ELSE IF Len(x) = 2 THEN <<(x[1] * 4) + (x[2] \div 16)>>
    ELSE IF Len(x) = 3
    THEN <<(x[1] * 4) + (x[2] \div 16), ((x[2] % 16) * 16) + (x[3] \div 4)>>
    ELSE <<(x[1] * 4) + (x[2] \div 16), ((x[2] % 16) * 16) + (x[3] \div 4),
           ((x[3] % 4) * 64) + x[4]>>
         \o SextetsToBytes(SubSeq(x, 5, Len(x)))

RECURSIVE Indices(_)
Indices(cs) == IF cs = <<>> THEN <<>> ELSE <<B64Index(cs[1])>> \o Indices(Tail(cs))

\* base64.b64decode(text): characters outside the alphabet are discarded;
\* ok is FALSE where it raises binascii.Error (incorrect padding)
B64Decode(text) ==
    LET data == SelectSeq(text, LAMBDA c : c \in Range(B64Chars))
        pads == Len(SelectSeq(text, LAMBDA c : c = PAD))
    IN  [ok    |-> Len(data) % 4 # 1 /\ (Len(data) + pads) % 4 = 0,
         bytes |-> SextetsToBytes(Indices(data))]

REPLACEMENT == 65533

IsCont(b) == b \in 128..191

\* bytes.decode("utf-8", "replace"): an ill-formed byte becomes U+FFFD
RECURSIVE Utf8Decode(_)
Utf8Decode(bs) ==
    IF bs = <<>> THEN <<>>
    ELSE LET n == Len(bs)
             b == bs[1]
             c2 == ((b - 192) * 64) + (bs[2] - 128)
             c3 == ((b - 224) * 4096) + ((bs[2] - 128) * 64) + (bs[3] - 128)
             c4 == ((b - 240) * 262144) + ((bs[2] - 128) * 4096)
                   + ((bs[3] - 128) * 64) + (bs[4] - 128)
         IN  IF b < 128 THEN <<b>> \o Utf8Decode(Tail(bs))
             ELSE IF b \in 194..223 /\ n >= 2 /\ IsCont(bs[2])
             THEN <<c2>> \o Utf8Decode(SubSeq(bs, 3, n))
             ELSE IF /\ b \in 224..239 /\ n >= 3 /\ IsCont(bs[2]) /\ IsCont(bs[3])
                     /\ c3 >= 2048 /\ c3 \notin 55296..57343
             THEN <<c3>> \o Utf8Decode(SubSeq(bs, 4, n))
             ELSE IF /\ b \in 240..244 /\ n >= 4 /\ IsCont(bs[2]) /\ IsCont(bs[3])
                     /\ IsCont(bs[4]) /\ c4 \in 65536..1114111
             THEN <<c4>> \o Utf8Decode(SubSeq(bs, 5, n))
             ELSE <<REPLACEMENT>> \o Utf8Decode(Tail(bs))

-----------------------------------------------------------------------------
(* _run_agent_commands: shell quoting and the command line *)

SQ == "'"

DQ == "\""

\* the characters shlex.quote leaves unquoted: [A-Za-z0-9_@%+=:,./-]
SafeChars == Range(B64Chars) \cup {"_", "@", "%", "=", ":", ",", ".", "-"}

RECURSIVE EscapeQuotes(_)
EscapeQuotes(s) ==
    IF s = <<>> THEN <<>>
    ELSE (IF s[1] = SQ THEN <<SQ, DQ, SQ, DQ, SQ>> ELSE <<s[1]>>)
         \o EscapeQuotes(Tail(s))

\* shlex.quote(s)
ShlexQuote(s) ==
    IF s = <<>> THEN <<SQ, SQ>>
    ELSE IF Range(s) \subseteq SafeChars THEN s
    ELSE <<SQ>> \o EscapeQuotes(s) \o <<SQ>>

\* the text of the launcher script `py`, one token
Launcher == "<launcher>"

\* f"TB_INSTR_B64={...} TB_MODEL={...} python3 -c {...}"
CommandLine(ins) ==
    <<"TB_INSTR_B64=">> \o ShlexQuote(B64Encode(Utf8Encode(ins)))
    \o <<WS, "TB_MODEL=">> \o ShlexQuote(self.model_name)
    \o <<WS, "python3", WS, "-c", WS>> \o <<SQ, Launcher, SQ>>

\* the list _run_agent_commands returns
RunAgentCommandsResult(ins) ==
    <<[command |-> CommandLine(ins), min_timeout_sec |-> "0.0",
       max_timeout_sec |-> "inf", block |-> TRUE, append_enter |-> TRUE]>>

-----------------------------------------------------------------------------
(* perform_task *)

\* what copy_to_container may raise: errors of the session collaborator
SessionErrors ==
    {[type |-> "RuntimeError", text |-> "copy failed", paths |-> <<>>],
     [type |-> "OSError", text |-> "no space left", paths |-> <<>>]}

NoFault == [err |-> NoError, at |-> 0]

\* One run of perform_task in which copy_to_container call number failAt (if
\* the run gets that far) raises err: the error the run ends with, the copy
\* calls it issued and whether it reached super().perform_task.
Outcome_Swallow(failAt, err) ==
    IF ValidationError # NoError
    THEN [raised |-> ValidationError, fault |-> NoFault, copies |-> <<>>, super |-> FALSE]
    ELSE IF failAt \in 1..Len(CopyPlan)
    THEN [raised |-> NoError, fault |-> [err |-> err, at |-> failAt],
          copies |-> CopyPlan, super |-> TRUE]
    ELSE [raised |-> NoError, fault |-> NoFault, copies |-> CopyPlan, super |-> TRUE]

Outcome(failAt, err) ==
    IF ValidationError # NoError
    THEN [raised |-> ValidationError, fault |-> NoFault, copies |-> <<>>, super |-> FALSE]
    ELSE IF failAt \in 1..Len(CopyPlan)
    THEN [raised |-> err, fault |-> [err |-> err, at |-> failAt],
          copies |-> SubSeq(CopyPlan, 1, failAt), super |-> FALSE]
    ELSE [raised |-> NoError, fault |-> NoFault, copies |-> CopyPlan, super |-> TRUE]

PerformTask(failAt, err) ==
    /\ constructed
    /\ calls < MaxCalls
    /\ calls' = calls + 1
    /\ \E o \in {Outcome(failAt, err)} :
        /\ raised' = o.raised
        /\ sessionRaised' = o.fault
        /\ runCopies' = o.copies
        /\ copyLog' = copyLog \o o.copies
        /\ superCalled' = o.super
        /\ staged' = (staged \/ o.super)
        \* super().perform_task builds the commands with _run_agent_commands
        /\ commands' = IF o.super THEN RunAgentCommandsResult(instruction) ELSE commands
        /\ invoked' = IF o.super THEN "super" ELSE invoked
    /\ UNCHANGED <<kwargs, environ, modelArg, constructed, self, hostFiles, instruction,
                   proc>>

\* _run_agent_commands called on the instance directly
RunAgentCommands ==
    /\ constructed
    /\ commands' = RunAgentCommandsResult(instruction)
    /\ invoked' = "direct"
    /\ UNCHANGED <<kwargs, environ, modelArg, constructed, self, hostFiles, calls,
                   copyLog, runCopies, sessionRaised, raised, superCalled, staged,
                   instruction, proc>>

-----------------------------------------------------------------------------
(* The command in the session: the shell, then the launcher script *)

\* the words of a shell command line, quotes removed
RECURSIVE ShellSplit(_, _, _, _)
ShellSplit(line, mode, cur, has) ==
    IF line = <<>> THEN (IF has THEN <<cur>> ELSE <<>>)
    ELSE LET c == line[1]
             r == Tail(line)
         IN  CASE mode = "plain" /\ c = WS ->
                    (IF has THEN <<cur>> ELSE <<>>) \o ShellSplit(r, "plain", <<>>, FALSE)
               [] mode = "plain" /\ c = SQ -> ShellSplit(r, "single", cur, TRUE)
               [] mode = "plain" /\ c = DQ -> ShellSplit(r, "double", cur, TRUE)
               [] mode = "single" /\ c = SQ -> ShellSplit(r, "plain", cur, TRUE)
               [] mode = "double" /\ c = DQ -> ShellSplit(r, "plain", cur, TRUE)
               [] OTHER -> ShellSplit(r, mode, Append(cur, c), TRUE)

IsAssignment(w) == w # <<>> /\ w[1] \in {"TB_INSTR_B64=", "TB_MODEL="}

RECURSIVE LeadingAssignments(_)
LeadingAssignments(ws) ==
    IF ws # <<>> /\ IsAssignment(ws[1]) THEN 1 + LeadingAssignments(Tail(ws)) ELSE 0

\* the value the leading assignments give to a variable (the last one wins)
RECURSIVE Assigned(_, _, _)
Assigned(ws, n, name) ==
    IF n = 0 THEN None
    ELSE IF ws[n][1] = name THEN Some(Tail(ws[n]))
    ELSE Assigned(ws, n - 1, name)

Lit(x) == [kind |-> "literal", s |-> <<x>>, cps |-> <<>>]

StrArg(x) == [kind |-> "str", s |-> x, cps |-> <<>>]

TextArg(x) == [kind |-> "text", s |-> <<>>, cps |-> x]

\* cmd = ['node', cli.js]; ['--model', TB_MODEL] if TB_MODEL; ['--prompt', ins]
Argv_AlwaysModel(model, ins) ==
    <<Lit("node"), Lit("/installed-agent/piecode/cli.js")>>
    \o <<Lit("--model"), StrArg(IF model.isNone THEN <<>> ELSE model.s)>>
    \o <<Lit("--prompt"), TextArg(ins)>>

Argv(model, ins) ==
    <<Lit("node"), Lit("/installed-agent/piecode/cli.js")>>
    \o (IF ~model.isNone /\ model.s # <<>>
        THEN <<Lit("--model"), StrArg(model.s)>> ELSE <<>>)
    \o <<Lit("--prompt"), TextArg(ins)>>

\* sys.exit(p.returncode): the exit status of a process is one byte
SysExit_Flag(rc) == IF rc = 0 THEN 0 ELSE 1

SysExit(rc) == rc % 256

Idle ==
    [pc |-> "idle", instr |-> None, model |-> None, argv |-> <<>>, cwd |-> "",
     stdin |-> "", error |-> "", returncode |-> 0, exitStatus |-> 0]

\* The session runs commands[1]: the shell sets the two variables and starts
\* python3 -c <launcher>; the launcher decodes the instruction, builds the
\* argument vector and starts the target (Popen), then blocks in p.wait().
\* launchable: whether Popen can start the target.
SessionLaunch(launchable) ==
    /\ commands # <<>>
    /\ proc.pc = "idle"
    /\ LET words == ShellSplit(commands[1].command, "plain", <<>>, FALSE)
           n     == LeadingAssignments(words)
           instr == Assigned(words, n, "TB_INSTR_B64=")
           model == Assigned(words, n, "TB_MODEL=")
           dec   == B64Decode(instr.s)
           argv  == Argv(model, Utf8Decode(dec.bytes))
           p     == [Idle EXCEPT !.instr = instr, !.model = model]
       IN  proc' =
             IF SubSeq(words, n + 1, Len(words)) # <<<<"python3">>, <<"-c">>, <<Launcher>>>>
             THEN [p EXCEPT !.pc = "failed", !.error = "shell", !.exitStatus = 127]
             ELSE IF instr.isNone
             THEN [p EXCEPT !.pc = "failed", !.error = "KeyError", !.exitStatus = 1]
             ELSE IF ~dec.ok
             THEN [p EXCEPT !.pc = "failed", !.error = "binascii.Error", !.exitStatus = 1]
             ELSE IF ~launchable
             THEN [p EXCEPT !.pc = "failed", !.error = "OSError", !.argv = argv,
                            !.exitStatus = 1]
             ELSE [p EXCEPT !.pc = "waiting", !.argv = argv, !.cwd = "/app",
                            !.stdin = "DEVNULL"]
    /\ UNCHANGED <<kwargs, environ, modelArg, constructed, self, hostFiles, calls,
                   copyLog, runCopies, sessionRaised, raised, superCalled, staged,
                   instruction, commands, invoked>>

MaxSignal == 15

\* what p.returncode can be: an exit status, or -N for a child killed by signal N
ReturnCodes == (0..255) \cup {-n : n \in 1..MaxSignal}

\* the target ends: p.wait() returns and the launcher exits
ChildExit(rc) ==
    /\ proc.pc = "waiting"
    /\ proc' = [proc EXCEPT !.pc = "exited", !.returncode = rc,
                            !.exitStatus = SysExit(rc)]
    /\ UNCHANGED <<kwargs, environ, modelArg, constructed, self, hostFiles, calls,
                   copyLog, runCopies, sessionRaised, raised, superCalled, staged,
                   instruction, commands, invoked>>

-----------------------------------------------------------------------------
(* Initial states and specifications *)

EmptyMap == [k \in {} |-> <<>>]

AllKeys == HostKeys \cup SessionKeys

\* the variables of os.environ the model gives a value: the three __init__
\* reads, and the three that name the session paths in _env
EnvNames ==
    {"PIECODE_HOST_PATH", "PIECODE_SETTINGS_PATH", "CODEX_AUTH_PATH",
     "HOME", "CODEX_HOME", "PIECODE_SETTINGS_FILE"}

KwPath  == <<SEP, "opt", SEP, "kw">>

EnvPath == <<SEP, "opt", SEP, "env">>

\* the five host artifacts at their default places
DefaultArtifacts ==
    {DefaultHostRepo \o <<SEP, "src">>, DefaultHostRepo \o <<SEP, "package.json">>,
     DefaultHostRepo \o <<SEP, "package-lock.json">>, DefaultHostSettings,
     DefaultHostAuth}

ListFiles == <<108, 105, 115, 116, 32, 102, 105, 108, 101, 115>>

\* what is not configuration: a fresh adapter, session and harness
Fresh ==
    /\ constructed = FALSE
    /\ self = NoSelf
    /\ calls = 0
    /\ copyLog = <<>>
    /\ runCopies = <<>>
    /\ sessionRaised = NoFault
    /\ raised = NoError
    /\ superCalled = FALSE
    /\ staged = FALSE
    /\ commands = <<>>
    /\ invoked = "none"
    /\ proc = Idle

(* Configuration: any choice of up to MaxSupplied overrides and environment   *)
(* variables, each empty or not.                                             *)
MaxSupplied == 3

InitConfig ==
    /\ kwargs \in PartialMaps(AllKeys, {<<>>, KwPath})
    /\ environ \in PartialMaps(EnvNames, {<<>>, EnvPath})
    /\ Cardinality(DOMAIN kwargs) + Cardinality(DOMAIN environ) <= MaxSupplied
    /\ modelArg = None
    /\ hostFiles = DefaultArtifacts
    /\ instruction = ListFiles
    /\ Fresh

NextConfig == Construct

SpecConfig == InitConfig /\ [][NextConfig]_vars

(* Provisioning: any subset of the host artifacts present, session paths     *)
(* defaulted or overridden, also by paths that are not in normal form.       *)
SessionPaths ==
    {<<SEP, "home", SEP, "u", SEP>>,
     <<SEP, "cfg", SEP, SEP, "s.json">>,
     <<"rel", SEP, ".", SEP, "s.json">>}

InitProvision ==
    /\ kwargs \in PartialMaps(SessionKeys, SessionPaths)
    /\ environ = EmptyMap
    /\ modelArg = None
    /\ hostFiles \in SUBSET DefaultArtifacts
    /\ instruction = ListFiles
    /\ Fresh

NextProvision ==
    \/ Construct
    \/ \E failAt \in 0..3, err \in SessionErrors : PerformTask(failAt, err)
    \/ RunAgentCommands

SpecProvision == InitProvision /\ [][NextProvision]_vars

(* Composition of the command, for every model name *)
MaxModelLen == 3

ModelChars == {"m", SEP, WS, SQ}

InitModel ==
    /\ kwargs = EmptyMap
    /\ environ = EmptyMap
    /\ modelArg \in {None} \cup {Some(m) : m \in SeqUpTo(ModelChars, MaxModelLen)}
    /\ hostFiles = DefaultArtifacts
    /\ instruction \in {ListFiles, <<>>}
    /\ Fresh

NextCompose ==
    \/ Construct
    \/ RunAgentCommands
    \/ \E launchable \in BOOLEAN : SessionLaunch(launchable)

SpecModel == InitModel /\ [][NextCompose]_vars

(* Composition of the command, for every instruction *)
MaxInstrLen == 3

\* newline, double quote, single quote, backslash, a letter, and one code
\* point of each longer UTF-8 width: U+00E9, U+20AC, U+1F600
CodePoints == {10, 34, 39, 92, 97, 233, 8364, 128512}

InitInstr ==
    /\ kwargs = EmptyMap
    /\ environ = EmptyMap
    /\ modelArg = Some(<<"m">>)
    /\ hostFiles = DefaultArtifacts
    /\ instruction \in SeqUpTo(CodePoints, MaxInstrLen)
    /\ Fresh

SpecInstr == InitInstr /\ [][NextCompose]_vars

(* The run of the command to its end, for every return code of the target *)
InitRun ==
    /\ kwargs = EmptyMap
    /\ environ = EmptyMap
    /\ modelArg \in {None, Some(<<"m">>)}
    /\ hostFiles = DefaultArtifacts
    /\ instruction = ListFiles
    /\ Fresh

NextRun ==
    \/ Construct
    \/ RunAgentCommands
    \/ \E launchable \in BOOLEAN : SessionLaunch(launchable)
    \/ \E rc \in ReturnCodes : ChildExit(rc)

SpecRun == InitRun /\ [][NextRun]_vars

-----------------------------------------------------------------------------
(* Properties *)

\* the required host artifacts that do not exist, as strings
AbsentRequired ==
    {PathStr(p) : p \in {q \in Range(Required) \cup {self.host_settings} : ~Exists(q)}}

FailedValidation == calls > 0 /\ raised.type = "FileNotFoundError"

\* C1: when perform_task fails for missing artifacts, its one error names
\* every required host path that is absent, the settings path included.
C1_ErrorNamesEveryAbsentPath ==
    FailedValidation => Range(raised.paths) = AbsentRequired

\* C2: if a required artifact (src, package.json, package-lock.json or the
\* settings file) is absent, perform_task raises the missing-artifact error
\* and no copy_to_container call has been made on the session.
C2_NoCopyWhenRequiredAbsent ==
    (constructed /\ AbsentRequired # {}) =>
        /\ copyLog = <<>>
        /\ runCopies = <<>>
        /\ calls > 0 => raised.type = "FileNotFoundError"

C2_Witness ==
    /\ FailedValidation
    /\ Missing = <<>>
    /\ ~Exists(self.host_settings)
    /\ copyLog = <<>>

\* C3: _run_agent_commands returns commands only on an instance on which a
\* perform_task call has completed its staging; before that, and after a
\* failed one, the call is rejected.
C3_InvokeOnlyWhenStaged ==
    (invoked = "direct" /\ commands # <<>>) => staged

\* C4: a run of perform_task in which an artifact is missing or a copy fails
\* does not reach super().perform_task, issues no copy after the failing one
\* and ends with the very error that was raised.
C4_FailureNeverInvokes ==
    /\ FailedValidation =>
         ~superCalled /\ runCopies = <<>> /\ sessionRaised = NoFault
    /\ sessionRaised.at > 0 =>
         /\ ~superCalled
         /\ raised = sessionRaised.err
         /\ Len(runCopies) = sessionRaised.at
    /\ (raised # NoError /\ invoked = "none") => commands = <<>>
    /\ (calls > 0 /\ raised # NoError /\ ~staged) => invoked # "super"

C4_Witness ==
    /\ sessionRaised.at = 2
    /\ Exists(self.host_codex_auth)
    /\ raised \in SessionErrors
    /\ Len(runCopies) = 2
    /\ ~superCalled
    /\ commands = <<>>

\* C9: a run of perform_task with every required artifact present and no
\* failing copy issues, in this order: src, package.json and package-lock.json
\* in one call into /installed-agent/piecode; the settings file into the
\* directory of the session settings path, under that path's file name; the
\* credential file into the session credential home as auth.json, this last
\* call exactly when the host credential file exists.  Either way the run
\* goes on to super().perform_task.
C9_CopyOrder ==
    (calls > 0 /\ raised = NoError) =>
        /\ superCalled
        /\ Len(runCopies) = (IF DefaultHostAuth \in hostFiles THEN 3 ELSE 2)
        /\ runCopies[1] =
             [paths |-> <<DefaultHostRepo \o <<SEP, "src">>,
                          DefaultHostRepo \o <<SEP, "package.json">>,
                          DefaultHostRepo \o <<SEP, "package-lock.json">>>>,
              container_dir |-> <<SEP, "installed-agent", SEP, "piecode">>,
              container_filename |-> None]
        /\ runCopies[2].paths = <<DefaultHostSettings>>
        /\ ~runCopies[2].container_filename.isNone
        /\ PathJoin(Path(runCopies[2].container_dir), runCopies[2].container_filename.s)
             = Path(self.container_settings_path)
        /\ PathStr(Path(runCopies[2].container_dir)) = runCopies[2].container_dir
        /\ ("container_settings_path" \notin DOMAIN kwargs
            /\ "container_home" \notin DOMAIN kwargs) =>
             /\ runCopies[2].container_dir = <<SEP, "root", SEP, ".piecode">>
             /\ runCopies[2].container_filename.s = <<"settings.json">>
        /\ Len(runCopies) = 3 =>
             runCopies[3] = [paths |-> <<DefaultHostAuth>>,
                             container_dir |-> self.container_codex_home,
                             container_filename |-> Some(<<"auth.json">>)]

C9_Witness ==
    /\ calls > 0
    /\ raised = NoError
    /\ DefaultHostAuth \notin hostFiles
    /\ Len(runCopies) = 2
    /\ superCalled

IsAfterLastSlash(m, t) ==
    \E i \in 0..Len(m) :
        /\ t = SubSeq(m, i + 1, Len(m))
        /\ SEP \notin Range(t)
        /\ i = 0 \/ m[i] = SEP

\* u is t without its leading and trailing whitespace
IsStripped(t, u) ==
    \E i \in 0..Len(t) : \E j \in i..Len(t) :
        /\ u = SubSeq(t, i + 1, j)
        /\ \A k \in 1..i : t[k] = WS
        /\ \A k \in (j + 1)..Len(t) : t[k] = WS
        /\ u # <<>> => (u[1] # WS /\ u[Len(u)] # WS)

Launched == proc.pc \in {"waiting", "exited"}

FlagPositions(flag) == {i \in 1..Len(proc.argv) : proc.argv[i] = Lit(flag)}

\* C5: the model name kept at construction is the text after the last "/" of
\* the given name, stripped of surrounding whitespace.  When it is empty the
\* argument vector the launcher builds has no --model; otherwise it has
\* --model once, followed by the trimmed name, before --prompt.
C5_ModelFlag ==
    /\ constructed =>
         \E t \in SeqUpTo(ModelChars, Len(modelArg.s)) :
             /\ IsAfterLastSlash(modelArg.s, t)
             /\ IsStripped(t, self.model_name)
    /\ proc.pc = "failed" => proc.error = "OSError"
    /\ proc.pc # "idle" =>
         /\ Len(proc.argv) = (IF self.model_name = <<>> THEN 4 ELSE 6)
         /\ proc.argv[1] = Lit("node")
         /\ proc.argv[2] = Lit("/installed-agent/piecode/cli.js")
         /\ FlagPositions("--prompt") = {Len(proc.argv) - 1}
         /\ proc.argv[Len(proc.argv)] = TextArg(instruction)
         /\ self.model_name = <<>> => FlagPositions("--model") = {}
         /\ self.model_name # <<>> =>
              /\ FlagPositions("--model") = {3}
              /\ proc.argv[4] = StrArg(self.model_name)

C5_Witness ==
    /\ Launched
    /\ modelArg = Some(<<SEP, SQ, WS>>)
    /\ proc.argv[3] = Lit("--model")
    /\ proc.argv[4] = StrArg(<<SQ>>)

\* the first word of the command line, as the shell reads it
FirstWord == ShellSplit(commands[1].command, "plain", <<>>, FALSE)[1]

\* C6: for every instruction, the text after --prompt is the instruction:
\* base64 and UTF-8 decoding in the session undo the UTF-8 and base64
\* encoding of _run_agent_commands, and the value carried in TB_INSTR_B64 is
\* made of base64 characters only.
C6_InstructionRoundTrip ==
    /\ commands # <<>> =>
         /\ FirstWord[1] = "TB_INSTR_B64="
         /\ Range(Tail(FirstWord)) \subseteq Range(B64Chars) \cup {PAD}
    /\ proc.pc = "failed" => proc.error = "OSError"
    /\ proc.pc # "idle" =>
         /\ ~proc.instr.isNone
         /\ Range(proc.instr.s) \subseteq Range(B64Chars) \cup {PAD}
         /\ proc.argv[Len(proc.argv) - 1] = Lit("--prompt")
         /\ proc.argv[Len(proc.argv)] = TextArg(instruction)

C6_Witness ==
    /\ Launched
    /\ instruction = <<10, 39, 8364>>
    /\ proc.argv[Len(proc.argv)] = TextArg(<<10, 39, 8364>>)

\* C7 as claimed: the target is started with stdin closed and, whatever
\* return code it ends with, negative ones included, the command's exit
\* status is that return code.
C7_ExitStatusIsReturnCode ==
    /\ Launched => proc.stdin = "DEVNULL"
    /\ proc.pc = "exited" => proc.exitStatus = proc.returncode

\* C7 as amended: a target that is started is started with stdin closed,
\* and the command exits when it has ended: with the target's exit status c
\* for c in 0..255, and with 256 - N for a target killed by signal N
\* (return code -N).
C7_ExitStatusIsReturnCodeByte ==
    /\ Launched => (proc.stdin = "DEVNULL" /\ proc.cwd = "/app")
    /\ proc.pc = "exited" =>
         /\ proc.returncode \in 0..255 => proc.exitStatus = proc.returncode
         /\ proc.returncode < 0 => proc.exitStatus = 256 + proc.returncode

C7_Witness ==
    /\ proc.pc = "exited"
    /\ proc.stdin = "DEVNULL"
    /\ proc.returncode = 17
    /\ proc.exitStatus = 17

\* what "override, else environment variable, else default" gives
Precedence(k, e, default) ==
    IF k \in DOMAIN kwargs THEN kwargs[k]
    ELSE IF e \in DOMAIN environ THEN environ[e]
    ELSE default

\* C8 as claimed: each of the six inputs is the override when one is
\* supplied, else the environment variable when it is set, else the default.
C8_OverrideEnvDefault ==
    constructed =>
        /\ self.host_repo =
             Path(Precedence("piecode_host_path", "PIECODE_HOST_PATH", DefaultHostRepo))
        /\ self.host_settings =
             Path(Precedence("piecode_settings_path", "PIECODE_SETTINGS_PATH",
                             DefaultHostSettings))
        /\ self.host_codex_auth =
             Path(Precedence("codex_auth_path", "CODEX_AUTH_PATH", DefaultHostAuth))
        /\ self.container_home = Precedence("container_home", "HOME", <<SEP, "root">>)
        /\ self.container_codex_home =
             Precedence("codex_home", "CODEX_HOME",
                        self.container_home \o <<SEP, ".codex">>)
        /\ self.container_settings_path =
             Precedence("container_settings_path", "PIECODE_SETTINGS_FILE",
                        self.container_home \o <<SEP, ".piecode", SEP, "settings.json">>)

Given(m, k) == k \in DOMAIN m /\ m[k] # <<>>

\* the rule of the three host paths, for one of them
HostRule(value, k, e, default) ==
    /\ Given(kwargs, k) => value = Path(kwargs[k])
    /\ (~Given(kwargs, k) /\ Given(environ, e)) => value = Path(environ[e])
    /\ (~Given(kwargs, k) /\ ~Given(environ, e)) => value = Path(default)

\* the rule of the three session paths, for one of them
SessionRule(value, k, default) ==
    /\ k \in DOMAIN kwargs => value = kwargs[k]
    /\ k \notin DOMAIN kwargs => value = default

\* C8 as amended: the three host paths are the override when one is supplied
\* and not empty, else the environment variable when it is set and not
\* empty, else the default.  The three session paths are the override
\* whenever one is supplied, else the default (for the credential home and
\* the settings path, the default under the resolved session home); no
\* environment variable is read for them.
C8_PrecedenceAsResolved ==
    constructed =>
        /\ HostRule(self.host_repo, "piecode_host_path", "PIECODE_HOST_PATH",
                    <<SEP, "Users", SEP, "reeze", SEP, "piecode">>)
        /\ HostRule(self.host_settings, "piecode_settings_path", "PIECODE_SETTINGS_PATH",
                    <<SEP, "Users", SEP, "reeze", SEP, ".piecode", SEP, "settings.json">>)
        /\ HostRule(self.host_codex_auth, "codex_auth_path", "CODEX_AUTH_PATH",
                    <<SEP, "Users", SEP, "reeze", SEP, ".codex", SEP, "auth.json">>)
        /\ SessionRule(self.container_home, "container_home", <<SEP, "root">>)
        /\ SessionRule(self.container_codex_home, "codex_home",
                       self.container_home \o <<SEP, ".codex">>)
        /\ SessionRule(self.container_settings_path, "container_settings_path",
                       self.container_home \o <<SEP, ".piecode", SEP, "settings.json">>)

C8_Witness ==
    /\ constructed
    /\ Given(kwargs, "piecode_host_path")
    /\ Given(environ, "PIECODE_HOST_PATH")
    /\ self.host_repo = Path(KwPath)
    /\ "piecode_settings_path" \notin DOMAIN kwargs
    /\ Given(environ, "PIECODE_SETTINGS_PATH")
    /\ self.host_settings = Path(EnvPath)

====
